---- MODULE Spec2Model ----
(***************************************************************************)
(* A model of the GraphQL gateway: the startup sequence of main() (schema  *)
(* sources collected in precedence order, merged once, listener bound),    *)
(* the per-request context function, the legacy (monolith) fetcher and the *)
(* productByID resolver of the catalog extension.                          *)
(*                                                                         *)
(* JavaScript values are tagged records: Undefined, Str(s), Arr(seq).      *)
(* JavaScript objects are functions from property names to values.         *)
(***************************************************************************)
EXTENDS Integers, Sequences, FiniteSets, TLC

VARIABLES
    pc,            \* position of main() / of the unit under test
    env,           \* process environment: IO_PACKAGES, LEGACY_GRAPHQL_URL
    sourceFields,  \* fields each kind of source defines (packages on disk, remote packages, monolith)
    schemas,       \* main(): the `schemas` array
    ioSchemaDefs,  \* prepareRemoteExtensionSchemas(): fragments with the rewrites applied to each
    i,             \* prepareRemoteExtensionSchemas(): position of the forEach
    ioSchema,      \* prepareRemoteExtensionSchemas(): the schema made from the fragments
    mergedSchemas, \* the array handed to mergeSchemas
    composed,      \* the schema registered with the server: field -> kind of the resolving source
    mergeCount,    \* calls of mergeSchemas
    introspectCount, \* calls of introspectSchema
    listening,     \* the HTTP listener is bound
    err,           \* the error main() rejected with
    exitCalls,     \* the codes process.exit was called with
    req,           \* the request being served: raw headers, req.headers, requested field
    ctx,           \* the GraphQLContext of that request
    resolvedBy,    \* the kind of source that resolved the requested field
    opts,          \* the IFetcherOperation given to the legacy fetcher
    outbound,      \* the request the legacy fetcher sent
    args,          \* productByID: resolver arguments
    catalogRequests, \* productByID: messages sent to the catalog backend
    res,           \* productByID: the backend's answer
    result         \* productByID: outcome of the resolution

vars == <<pc, env, sourceFields, schemas, ioSchemaDefs, i, ioSchema, mergedSchemas,
          composed, mergeCount, introspectCount, listening, err, exitCalls,
          req, ctx, resolvedBy, opts, outbound, args, catalogRequests, res, result>>

gatewayVars == <<env, sourceFields, schemas, ioSchemaDefs, i, ioSchema, mergedSchemas,
                 composed, mergeCount, introspectCount, listening, err, exitCalls>>
requestVars == <<req, resolvedBy>>
fetcherVars == <<opts, outbound>>
catalogVars == <<args, catalogRequests, res, result>>

----------------------------------------------------------------------------
(* Bounds *)

MaxPkgs == 2
MaxItems == 2

----------------------------------------------------------------------------
(* JavaScript values *)

Undefined == [type |-> "undefined"]
Null == [type |-> "null"]
Str(s) == [type |-> "string", val |-> s]
Arr(s) == [type |-> "array", val |-> s]

\* `${v}` inside a template literal
Interpolate(v) == IF v = Undefined THEN "undefined"
                  ELSE IF v = Null THEN "null"
                  ELSE v.val

\* if (v): objects are truthy, undefined is not
Truthy(v) == v # Undefined /\ v # Null

\* obj[k] of a JavaScript object
Get(obj, k) == IF k \in DOMAIN obj THEN obj[k] ELSE Undefined

\* Object.assign(target, source)
ObjectAssign(target, source) ==
    [k \in DOMAIN target \cup DOMAIN source |->
        IF k \in DOMAIN source THEN source[k] ELSE target[k]]

\* String.prototype.includes
Includes(s, t) ==
    \E n \in 1..(Len(s) - Len(t) + 1) : SubSeq(s, n, n + Len(t) - 1) = t

SeqsUpTo(S, n) == UNION {[1..k -> S] : k \in 0..n}

----------------------------------------------------------------------------
(* Value sets the inputs are drawn from *)

Fields == {"productByID", "cart"}
Pkgs == {"checkout", "cart"}
URLs == {"http://m1/graphql", "http://m2/graphql"}
Kinds == {"local", "remote", "legacy"}
Tokens == {"t", "Bearer t"}
Currencies == {"", "USD"}
Stores == {"", "de"}

\* header names as a client may write them
AuthNames == {"authorization", "Authorization"}
CurrencyNames == {"content-currency", "Content-Currency"}
StoreNames == {"Store"}

NoRequest == [type |-> "none"]
NoOpts == [type |-> "none"]
NoOutbound == [type |-> "none"]
NoSchema == [type |-> "none"]
NoContext == [type |-> "none"]

----------------------------------------------------------------------------
(* The legacy fetcher: src/extensions/legacy-proxy/apollo-fetcher.ts *)

\* variant: nothing is filtered
filterUndefinedEntriesKeepAll(obj) == obj

\* Object.entries(obj).filter(o => o[1] !== undefined), as an object again
filterUndefinedEntries(obj) ==
    [k \in {e \in DOMAIN obj : obj[e] # Undefined} |-> obj[k]]

\* variant: a token that already names the scheme is passed as it is
BearerTemplateNoDouble(legacyToken) ==
    IF legacyToken # Undefined /\ Includes(legacyToken.val, "Bearer ")
    THEN legacyToken
    ELSE Str("Bearer " \o Interpolate(legacyToken))

\* `Bearer ${context.legacyToken}`
BearerTemplate(legacyToken) == Str("Bearer " \o Interpolate(legacyToken))

\* the object literal given to filterUndefinedEntries
ContextHeaders(context) ==
    [k \in {"Authorization", "Content-Currency", "Store"} |->
        CASE k = "Authorization" -> BearerTemplate(context.legacyToken)
          [] k = "Content-Currency" -> context.currency
          [] k = "Store" -> context.store]

\* print(opts.query): the document in its textual form
print(query) == query.operation \o " { " \o query.field \o " }"

\* JSON.stringify(obj): properties whose value is undefined are left out
JSONStringify(obj) == [k \in {e \in DOMAIN obj : obj[e] # Undefined} |-> obj[k]]

\* the request the returned fetcher hands to fetch()
createMonolithApolloFetcher(monolithGraphQLUrl, o) ==
    LET base == [k \in {"Content-Type"} |-> Str("application/json")]
        headers == IF Truthy(o.context)
                   THEN ObjectAssign(base,
                            filterUndefinedEntries(ContextHeaders(o.context.graphqlContext)))
                   ELSE base
    IN [url |-> monolithGraphQLUrl,
        method |-> "POST",
        headers |-> headers,
        body |-> JSONStringify([query |-> Str(print(o.query)),
                                variables |-> o.variables,
                                operationName |-> o.operationName])]

Contexts ==
    [legacyToken : {Undefined} \cup {Str(t) : t \in Tokens},
     currency : {Undefined} \cup {Str(c) : c \in Currencies},
     store : {Undefined} \cup {Str(s) : s \in Stores}]

Documents == [operation : {"query"}, field : Fields]

FetcherOperations ==
    [context : {Undefined} \cup {[graphqlContext |-> c] : c \in Contexts},
     query : Documents,
     variables : {Undefined},
     operationName : {Undefined, Str("Q")}]

----------------------------------------------------------------------------
(* main(): startup *)

hasVar(name) == env[name] # Undefined
readVar(name) == env[name].val

\* variant: the source is put first
unshiftSchema(list, s) == <<s>> \o list

\* schemas.push(s)
pushSchema(list, s) == Append(list, s)

\* variant: the schemas are merged before the legacy source is prepared
SuccessorMergeEarly(at) ==
    CASE at = "collectLocal" ->
            IF hasVar("IO_PACKAGES") THEN "getRemote" ELSE "register"
      [] at = "getRemote" -> "rewrite"
      [] at = "rewrite" -> "register"
      [] at = "register" ->
            IF hasVar("LEGACY_GRAPHQL_URL") THEN "introspect" ELSE "listen"
      [] at = "introspect" -> "listen"
      [] at = "listen" -> "serving"
      [] at = "catch" -> "exited"

\* the order of the steps of main()
Successor(at) ==
    CASE at = "collectLocal" ->
            IF hasVar("IO_PACKAGES") THEN "getRemote"
            ELSE IF hasVar("LEGACY_GRAPHQL_URL") THEN "introspect"
            ELSE "register"
      [] at = "getRemote" -> "rewrite"
      [] at = "rewrite" ->
            IF hasVar("LEGACY_GRAPHQL_URL") THEN "introspect" ELSE "register"
      [] at = "introspect" -> "register"
      [] at = "register" -> "listen"
      [] at = "listen" -> "serving"
      [] at = "catch" -> "exited"

Error(message) == [type |-> "error", message |-> message]

\* mergeSchemas({ schemas }): "schemas are last-in-wins"
mergeSchemas(list) ==
    LET defined == UNION {list[n].fields : n \in 1..Len(list)}
        last(f) == CHOOSE n \in 1..Len(list) :
                      /\ f \in list[n].fields
                      /\ \A m \in (n + 1)..Len(list) : f \notin list[m].fields
    IN [type |-> "schema", resolver |-> [f \in defined |-> list[last(f)].kind]]

\* getAllRemoteGQLSchemas(packages): one { pkg, schemaDef } per package
getAllRemoteGQLSchemas(packages) ==
    [n \in 1..Len(packages) |->
        [pkg |-> packages[n],
         schemaDef |-> [from |-> packages[n], rewrittenWith |-> <<>>]]]

\* prependPkgNameToFunctionDirectives(schemaDef, pkg): rewrites schemaDef in place
prependPkgNameToFunctionDirectives(schemaDef, pkg) ==
    [schemaDef EXCEPT !.rewrittenWith = Append(@, pkg)]

\* the callback of ioSchemaDefs.forEach
forEachCallback(def) ==
    [def EXCEPT !.schemaDef = prependPkgNameToFunctionDirectives(def.schemaDef, def.pkg)]

\* variant: the last element is not visited
forEachDoneOffByOne(defs, n) == n >= Len(defs)

\* the forEach has visited every element
forEachDone(defs, n) == n > Len(defs)

\* variant: the message does not name the endpoint
introspectionErrorNoURL(legacyURL) ==
    Error("Failed introspecting remote Magento schema. "
          \o "Make sure that the LEGACY_GRAPHQL_URL variable has the "
          \o "correct value for your Magento instance")

\* the Error thrown by prepareFallbackSchema when introspection fails
introspectionError(legacyURL) ==
    Error("Failed introspecting remote Magento schema at \"" \o legacyURL \o "\". "
          \o "Make sure that the LEGACY_GRAPHQL_URL variable has the "
          \o "correct value for your Magento instance")

IntrospectionOperation ==
    [context |-> Undefined,
     query |-> [operation |-> "query", field |-> "__schema"],
     variables |-> Undefined,
     operationName |-> Undefined]

\* process.exit(1)
ExitFailure == 1

\* nothing of main() has run
StartupIdle ==
    /\ schemas = <<>>
    /\ ioSchemaDefs = <<>>
    /\ i = 1
    /\ ioSchema = NoSchema
    /\ mergedSchemas = <<>>
    /\ composed = NoSchema
    /\ mergeCount = 0
    /\ introspectCount = 0
    /\ listening = FALSE
    /\ err = Undefined
    /\ exitCalls = <<>>

\* no request has been served
RequestIdle ==
    /\ req = NoRequest
    /\ resolvedBy = "none"

\* productByID has not been called
CatalogIdle ==
    /\ args = Undefined
    /\ catalogRequests = <<>>
    /\ res = Undefined
    /\ result = Undefined

GatewayInit ==
    /\ pc = "collectLocal"
    /\ env \in [IO_PACKAGES : {Undefined} \cup {Arr(p) : p \in SeqsUpTo(Pkgs, MaxPkgs)},
                LEGACY_GRAPHQL_URL : {Undefined} \cup {Str(u) : u \in URLs}]
    /\ sourceFields \in [Kinds -> {{"cart"}, Fields}]
    /\ StartupIdle
    /\ RequestIdle
    /\ ctx = NoContext
    /\ opts = NoOpts
    /\ outbound = NoOutbound
    /\ CatalogIdle

\* const localExtensions = await collectLocalExtensions(); const schemas = [...]
CollectLocal ==
    /\ pc = "collectLocal"
    /\ schemas' = <<[kind |-> "local", fields |-> sourceFields["local"]]>>
    /\ pc' = Successor("collectLocal")
    /\ UNCHANGED <<env, sourceFields, ioSchemaDefs, i, ioSchema, mergedSchemas, composed,
                   mergeCount, introspectCount, listening, err, exitCalls>>
    /\ UNCHANGED <<requestVars, ctx, fetcherVars, catalogVars>>

\* prepareRemoteExtensionSchemas: await getAllRemoteGQLSchemas(packages)
GetRemoteSchemas ==
    /\ pc = "getRemote"
    /\ \/ /\ ioSchemaDefs' = getAllRemoteGQLSchemas(readVar("IO_PACKAGES"))
          /\ i' = 1
          /\ pc' = Successor("getRemote")
          /\ err' = err
       \/ /\ err' = Error("remote package schema")
          /\ pc' = "catch"
          /\ UNCHANGED <<ioSchemaDefs, i>>
    /\ UNCHANGED <<env, sourceFields, schemas, ioSchema, mergedSchemas, composed,
                   mergeCount, introspectCount, listening, exitCalls>>
    /\ UNCHANGED <<requestVars, ctx, fetcherVars, catalogVars>>

\* prepareRemoteExtensionSchemas: one turn of ioSchemaDefs.forEach
RewriteNext ==
    /\ pc = "rewrite"
    /\ ~forEachDone(ioSchemaDefs, i)
    /\ ioSchemaDefs' = [ioSchemaDefs EXCEPT ![i] = forEachCallback(@)]
    /\ i' = i + 1
    /\ UNCHANGED <<pc, env, sourceFields, schemas, ioSchema, mergedSchemas, composed,
                   mergeCount, introspectCount, listening, err, exitCalls>>
    /\ UNCHANGED <<requestVars, ctx, fetcherVars, catalogVars>>

\* prepareRemoteExtensionSchemas: makeExecutableSchema, and main's schemas.push
MakeIoSchema ==
    /\ pc = "rewrite"
    /\ forEachDone(ioSchemaDefs, i)
    /\ ioSchema' = [type |-> "schema",
                    typeDefs |-> [n \in 1..Len(ioSchemaDefs) |-> ioSchemaDefs[n].schemaDef]]
    /\ schemas' = pushSchema(schemas,
                     [kind |-> "remote", fields |-> sourceFields["remote"] \cup {"ignoreMe"}])
    /\ pc' = Successor("rewrite")
    /\ UNCHANGED <<env, sourceFields, ioSchemaDefs, i, mergedSchemas, composed,
                   mergeCount, introspectCount, listening, err, exitCalls>>
    /\ UNCHANGED <<requestVars, ctx, fetcherVars, catalogVars>>

\* prepareFallbackSchema(legacyURL), and main's schemas.push
Introspect ==
    /\ pc = "introspect"
    /\ introspectCount' = introspectCount + 1
    /\ opts' = IntrospectionOperation
    /\ outbound' = createMonolithApolloFetcher(readVar("LEGACY_GRAPHQL_URL"), opts')
    /\ \/ /\ schemas' = pushSchema(schemas,
                           [kind |-> "legacy", fields |-> sourceFields["legacy"]])
          /\ pc' = Successor("introspect")
          /\ err' = err
       \/ /\ err' = introspectionError(readVar("LEGACY_GRAPHQL_URL"))
          /\ pc' = "catch"
          /\ schemas' = schemas
    /\ UNCHANGED <<env, sourceFields, ioSchemaDefs, i, ioSchema, mergedSchemas, composed,
                   mergeCount, listening, exitCalls>>
    /\ UNCHANGED <<requestVars, ctx, catalogVars>>

\* fastifyServer.register(fastifyGQL, { schema: mergeSchemas({ schemas, ... }), ... })
Register ==
    /\ pc = "register"
    /\ mergedSchemas' = schemas
    /\ composed' = mergeSchemas(schemas)
    /\ mergeCount' = mergeCount + 1
    /\ pc' = Successor("register")
    /\ UNCHANGED <<env, sourceFields, schemas, ioSchemaDefs, i, ioSchema,
                   introspectCount, listening, err, exitCalls>>
    /\ UNCHANGED <<requestVars, ctx, fetcherVars, catalogVars>>

\* await fastifyServer.listen(readVar('PORT').asNumber())
Listen ==
    /\ pc = "listen"
    /\ \/ /\ listening' = TRUE
          /\ pc' = Successor("listen")
          /\ err' = err
       \/ /\ err' = Error("listen failed")
          /\ pc' = "catch"
          /\ listening' = listening
    /\ UNCHANGED <<env, sourceFields, schemas, ioSchemaDefs, i, ioSchema, mergedSchemas,
                   composed, mergeCount, introspectCount, exitCalls>>
    /\ UNCHANGED <<requestVars, ctx, fetcherVars, catalogVars>>

\* main().catch(err => { console.error(err); process.exit(1); })
Catch ==
    /\ pc = "catch"
    /\ exitCalls' = Append(exitCalls, ExitFailure)
    /\ listening' = FALSE
    /\ pc' = Successor("catch")
    /\ UNCHANGED <<env, sourceFields, schemas, ioSchemaDefs, i, ioSchema, mergedSchemas,
                   composed, mergeCount, introspectCount, err>>
    /\ UNCHANGED <<requestVars, ctx, fetcherVars, catalogVars>>

----------------------------------------------------------------------------
(* Serving a request *)

\* header names as node's http parser stores them in req.headers: lower-cased
toLowerCase(name) ==
    CASE name \in AuthNames -> "authorization"
      [] name \in CurrencyNames -> "content-currency"
      [] name \in StoreNames -> "store"

\* req.headers of the request whose header lines are `raw` (<<name, value>> pairs)
IncomingHeaders(raw) ==
    [k \in {toLowerCase(h[1]) : h \in raw} |->
        Str((CHOOSE h \in raw : toLowerCase(h[1]) = k)[2])]

\* context: (req) => ({ legacyToken: ..., currency: ..., store: ... })
context(headers) ==
    [legacyToken |-> Get(headers, "authorization"),
     currency |-> Get(headers, "Content-Currency"),
     store |-> Get(headers, "Store")]

\* header lines a client may send: each of the three headers once or not at all
HeaderLines(names, values) == {{}} \cup {{<<n, v>>} : n \in names, v \in values}

RawRequests ==
    {a \cup c \cup s : a \in HeaderLines(AuthNames, Tokens),
                       c \in HeaderLines(CurrencyNames, {"USD"}),
                       s \in HeaderLines(StoreNames, {"de"})}

\* one GraphQL request for one root field, served from the registered schema
HandleRequest ==
    /\ pc = "serving"
    /\ listening
    /\ \E raw \in RawRequests, field \in Fields :
          LET headers == IncomingHeaders(raw)
              c == context(headers)
              owner == IF field \in DOMAIN composed.resolver
                       THEN composed.resolver[field] ELSE "none"
              o == [context |-> [graphqlContext |-> c],
                    query |-> [operation |-> "query", field |-> field],
                    variables |-> Undefined,
                    operationName |-> Undefined]
          IN /\ req' = [raw |-> raw, headers |-> headers, field |-> field]
             /\ ctx' = c
             /\ resolvedBy' = owner
             /\ IF owner = "legacy"
                THEN /\ opts' = o
                     /\ outbound' = createMonolithApolloFetcher(readVar("LEGACY_GRAPHQL_URL"), o)
                ELSE /\ opts' = NoOpts
                     /\ outbound' = NoOutbound
    /\ UNCHANGED <<pc, gatewayVars, catalogVars>>

Next ==
    \/ CollectLocal
    \/ GetRemoteSchemas
    \/ RewriteNext
    \/ MakeIoSchema
    \/ Introspect
    \/ Register
    \/ Listen
    \/ Catch
    \/ HandleRequest

Spec == GatewayInit /\ [][Next]_vars

----------------------------------------------------------------------------
(* The legacy fetcher called on its own *)

NoEnv == [IO_PACKAGES |-> Undefined, LEGACY_GRAPHQL_URL |-> Undefined]
NoSources == [k \in Kinds |-> {}]

FetcherInit ==
    /\ pc = "fetcher"
    /\ env \in [IO_PACKAGES : {Undefined}, LEGACY_GRAPHQL_URL : {Str(u) : u \in URLs}]
    /\ sourceFields = NoSources
    /\ StartupIdle
    /\ RequestIdle
    /\ ctx = NoContext
    /\ opts \in FetcherOperations
    /\ outbound = NoOutbound
    /\ CatalogIdle

\* const result = await fetch(monolithGraphQLUrl, { method, headers, body })
FetcherCall ==
    /\ pc = "fetcher"
    /\ outbound' = createMonolithApolloFetcher(readVar("LEGACY_GRAPHQL_URL"), opts)
    /\ pc' = "awaitFetch"
    /\ UNCHANGED <<gatewayVars, requestVars, ctx, opts, catalogVars>>

\* return result.json(), or the rejection of fetch
FetcherReturn ==
    /\ pc = "awaitFetch"
    /\ \E r \in {[type |-> "json"], Error("fetch failed")} : result' = r
    /\ pc' = "fetched"
    /\ UNCHANGED <<gatewayVars, requestVars, ctx, fetcherVars, args, catalogRequests, res>>

FetcherNext == FetcherCall \/ FetcherReturn

SpecFetcher == FetcherInit /\ [][FetcherNext]_vars

----------------------------------------------------------------------------
(* The catalog extension: productByID *)

Ids == {"123", "456"}
Products == {[sku |-> "123", name |-> "Shirt"], [sku |-> "456", name |-> "Hat"]}
CatalogResponses == {[items |-> l] : l \in SeqsUpTo(Products, MaxItems)}

\* variant: the store is taken from the context when it has one
ProductsGetRequestFromContext(a, c) ==
    [ids |-> <<a.id>>,
     store |-> IF c.store # Undefined THEN c.store.val ELSE "default"]

\* the ProductsGetRequest built by the resolver; it is called with
\* (root, args, context, info) and reads args only
ProductsGetRequest(a, c) == [ids |-> <<a.id>>, store |-> "default"]

\* the resolver after `await getProducts(msg)` answered r
productByIDResolve(r) ==
    IF ~Truthy(r)
    THEN [type |-> "AssertionError",
          message |-> "Did not receive a response from Catalog gRPC API"]
    ELSE LET items == r.items
             product == IF Len(items) >= 1 THEN items[1] ELSE Undefined
         IN IF product = Undefined
            THEN [type |-> "TypeError",
                  message |-> "Cannot read property 'getSku' of undefined"]
            ELSE [type |-> "product", id |-> product.sku, name |-> product.name]

CatalogInit ==
    /\ pc = "productByID"
    /\ env = NoEnv
    /\ sourceFields = NoSources
    /\ StartupIdle
    /\ RequestIdle
    /\ ctx \in Contexts
    /\ opts = NoOpts
    /\ outbound = NoOutbound
    /\ args \in [id : Ids]
    /\ catalogRequests = <<>>
    /\ res = Undefined
    /\ result = Undefined

\* msg = new ProductsGetRequest(); ...; getProducts(msg)
CatalogSend ==
    /\ pc = "productByID"
    /\ catalogRequests' = Append(catalogRequests, ProductsGetRequest(args, ctx))
    /\ pc' = "awaitGetProducts"
    /\ UNCHANGED <<gatewayVars, requestVars, ctx, fetcherVars, args, res, result>>

\* the backend answers: a response, no response, or an error
CatalogReceive ==
    /\ pc = "awaitGetProducts"
    /\ \/ \E r \in CatalogResponses \cup {Undefined} :
             /\ res' = r
             /\ result' = productByIDResolve(r)
       \/ /\ res' = Error("grpc")
          /\ result' = Error("grpc")
    /\ pc' = "resolved"
    /\ UNCHANGED <<gatewayVars, requestVars, ctx, fetcherVars, args, catalogRequests>>

CatalogNext == CatalogSend \/ CatalogReceive

SpecCatalog == CatalogInit /\ [][CatalogNext]_vars

----------------------------------------------------------------------------
(* Properties *)

KindsOf(list) == [n \in 1..Len(list) |-> list[n].kind]

\* the sources the configuration asks for, in precedence order
ExpectedKinds ==
    <<"local">>
    \o (IF hasVar("IO_PACKAGES") THEN <<"remote">> ELSE <<>>)
    \o (IF hasVar("LEGACY_GRAPHQL_URL") THEN <<"legacy">> ELSE <<>>)

LegacyLast(list) ==
    \A n \in 1..Len(list) : list[n].kind = "legacy" => n = Len(list)

\* C1: the list handed to mergeSchemas is local, then remote iff IO_PACKAGES is
\* set, then legacy iff LEGACY_GRAPHQL_URL is set; without LEGACY_GRAPHQL_URL no
\* introspection is made; between a local and a remote definition of a field the
\* remote one resolves it (the local one never does), between a remote and a
\* legacy definition the legacy one does; nothing is ever placed after legacy.
C1_SourceOrderAndPrecedence ==
    /\ ~hasVar("LEGACY_GRAPHQL_URL") => introspectCount = 0
    /\ LegacyLast(schemas)
    /\ mergeCount > 0 =>
          /\ KindsOf(mergedSchemas) = ExpectedKinds
          /\ LegacyLast(mergedSchemas)
          /\ \A f \in Fields :
                LET inLocal == f \in sourceFields["local"]
                    inRemote == hasVar("IO_PACKAGES") /\ f \in sourceFields["remote"]
                    inLegacy == hasVar("LEGACY_GRAPHQL_URL") /\ f \in sourceFields["legacy"]
                IN /\ (inLocal /\ inRemote) => composed.resolver[f] # "local"
                   /\ (inLocal /\ inRemote /\ ~inLegacy) => composed.resolver[f] = "remote"
                   /\ (inRemote /\ inLegacy) => composed.resolver[f] = "legacy"

C1_Witness ==
    /\ mergeCount > 0
    /\ KindsOf(mergedSchemas) = <<"local", "remote", "legacy">>
    /\ \A k \in Kinds : "productByID" \in sourceFields[k]
    /\ composed.resolver["productByID"] = "legacy"

HasContext == Truthy(opts.context)

\* C2: a fetcher call whose context has no token sends no Authorization header;
\* an Authorization header is sent only if the context holds a token.
C2_AuthorizationOnlyWithToken ==
    (outbound # NoOutbound /\ "Authorization" \in DOMAIN outbound.headers)
        => (HasContext /\ opts.context.graphqlContext.legacyToken # Undefined)

\* the header `key` is sent exactly when the context holds `field`, with its value
HeaderMirrors(key, field) ==
    LET present == HasContext /\ opts.context.graphqlContext[field] # Undefined
    IN /\ (key \in DOMAIN outbound.headers) <=> present
       /\ present => outbound.headers[key] = opts.context.graphqlContext[field]

\* C3: a fetcher call sends Content-Currency iff the context's currency is
\* present and Store iff the context's store is present, each with the
\* context's value; an absent one yields no header key at all.
C3_CurrencyStoreHeaders ==
    outbound # NoOutbound =>
        /\ HeaderMirrors("Content-Currency", "currency")
        /\ HeaderMirrors("Store", "store")

C3_Witness ==
    /\ outbound # NoOutbound
    /\ HasContext
    /\ opts.context.graphqlContext.currency = Undefined
    /\ opts.context.graphqlContext.store = Str("de")
    /\ DOMAIN outbound.headers = {"Content-Type", "Authorization", "Store"}

\* the request supplies the header named by one of `names`, with this value
Supplied(names) == {h[2] : h \in {l \in req.raw : l[1] \in names}}

ContextMirrors(field, names) ==
    /\ (ctx[field] # Undefined) <=> (Supplied(names) # {})
    /\ \A v \in Supplied(names) : ctx[field] = Str(v)

\* C4: the context of a request has token, currency and store present exactly
\* when the request supplies the authorization, currency and store header,
\* with the header's value verbatim.
C4_ContextMirrorsHeaders ==
    req # NoRequest =>
        /\ ContextMirrors("legacyToken", AuthNames)
        /\ ContextMirrors("currency", CurrencyNames)
        /\ ContextMirrors("store", StoreNames)

\* introspectSchema was called and no legacy schema came of it
IntrospectionFailed ==
    /\ introspectCount > 0
    /\ \A n \in 1..Len(schemas) : schemas[n].kind # "legacy"

\* C5: when the startup introspection fails, main() rejects with an error
\* whose message includes the configured URL, the catch handler exits with
\* code 1, nothing is merged, the listener is never bound and no request is
\* served.
C5_IntrospectionFailureAborts ==
    IntrospectionFailed =>
        /\ pc \in {"catch", "exited"}
        /\ err # Undefined
        /\ Includes(err.message, readVar("LEGACY_GRAPHQL_URL"))
        /\ ~listening
        /\ mergeCount = 0
        /\ req = NoRequest
        /\ pc = "catch" => (exitCalls = <<>> /\ ENABLED Catch)
        /\ pc = "exited" => exitCalls = <<ExitFailure>>

C5_Witness ==
    /\ IntrospectionFailed
    /\ pc = "exited"
    /\ exitCalls = <<ExitFailure>>

IsResponse(r) == "items" \in DOMAIN r

\* C6: a response with an empty item list resolves to null without a fault;
\* only an absent response gives an error.
C6_EmptyListYieldsNull ==
    (pc = "resolved" /\ IsResponse(res)) =>
        /\ res.items = <<>> => result = Null
        /\ result.type \notin {"TypeError", "AssertionError"}

\* C7: a productByID(id) resolution sends exactly one catalog request, with
\* ids = [id] and store = "default", whatever the context holds.
C7_OneDefaultStoreRequest ==
    /\ pc = "productByID" => catalogRequests = <<>>
    /\ pc \in {"awaitGetProducts", "resolved"} =>
          catalogRequests = <<[ids |-> <<args.id>>, store |-> "default"]>>

C7_Witness ==
    /\ pc = "resolved"
    /\ ctx.store = Str("de")
    /\ ctx.legacyToken # Undefined
    /\ catalogRequests = <<[ids |-> <<"123">>, store |-> "default"]>>

\* C8: every fragment is rewritten with its own package's name, once, and all
\* of them before the fragments are made into the remote schema; no fragment
\* is merged unrewritten and none is rewritten twice.
C8_RewriteOncePerFragmentBeforeMerge ==
    /\ \A n \in 1..Len(ioSchemaDefs) :
          /\ ioSchemaDefs[n].schemaDef.rewrittenWith \in {<<>>, <<ioSchemaDefs[n].pkg>>}
          /\ ioSchemaDefs[n].schemaDef.from = ioSchemaDefs[n].pkg
    /\ ioSchema # NoSchema =>
          /\ Len(ioSchema.typeDefs) = Len(readVar("IO_PACKAGES"))
          /\ \A n \in 1..Len(ioSchema.typeDefs) :
                /\ ioSchema.typeDefs[n].from = readVar("IO_PACKAGES")[n]
                /\ ioSchema.typeDefs[n].rewrittenWith = <<readVar("IO_PACKAGES")[n]>>
                /\ ioSchemaDefs[n].schemaDef = ioSchema.typeDefs[n]

C8_Witness ==
    /\ ioSchema # NoSchema
    /\ Len(ioSchema.typeDefs) = 2
    /\ ioSchema.typeDefs[1].rewrittenWith = <<"checkout">>
    /\ ioSchema.typeDefs[2].rewrittenWith = <<"cart">>

ComposedOnce ==
    /\ mergeCount <= 1
    /\ mergeCount = 0 => (composed = NoSchema /\ ~listening)
    /\ listening =>
          /\ mergeCount = 1
          /\ mergedSchemas = schemas
          /\ KindsOf(schemas) = ExpectedKinds
    /\ req # NoRequest => mergeCount = 1

NoRecomposition ==
    listening =>
        /\ composed' = composed
        /\ mergeCount' = mergeCount
        /\ introspectCount' = introspectCount
        /\ schemas' = schemas
        /\ mergedSchemas' = mergedSchemas
        /\ ioSchemaDefs' = ioSchemaDefs
        /\ ioSchema' = ioSchema

\* C9: the schema is composed exactly once, from all configured sources, before
\* the listener is bound; once it is bound no step composes, introspects or
\* rewrites again, so every request is served from the same schema.
C9_ComposedOnceBeforeListen == []ComposedOnce /\ [][NoRecomposition]_vars

C9_Witness ==
    /\ listening
    /\ req # NoRequest
    /\ resolvedBy = "legacy"
    /\ KindsOf(mergedSchemas) = <<"local", "remote", "legacy">>

\* C10: a request whose authorization header has value v is delegated to the
\* legacy endpoint with Authorization "Bearer " followed by v: the context
\* holds v as sent and the scheme is prepended whatever v is, so "Bearer t"
\* goes out as "Bearer Bearer t".
C10_BearerPrefixAlwaysPrepended ==
    (req # NoRequest /\ resolvedBy = "legacy") =>
        \A v \in Supplied(AuthNames) :
            /\ ctx.legacyToken = Str(v)
            /\ outbound # NoOutbound
            /\ "Authorization" \in DOMAIN outbound.headers
            /\ outbound.headers["Authorization"] = Str("Bearer " \o v)

C10_Witness ==
    /\ req # NoRequest
    /\ resolvedBy = "legacy"
    /\ Supplied(AuthNames) = {"Bearer t"}
    /\ outbound.headers["Authorization"] = Str("Bearer Bearer t")

====
